---- MODULE Spec2Model ----
(***************************************************************************)
(* A model of app.py, the Streamlit house price predictor.                 *)
(*                                                                         *)
(* The script is executed top to bottom on every page load and on every    *)
(* press of the form's Predict button.  What survives from one execution   *)
(* to the next is the local disk (the model file written by                *)
(* ensure_model) and the st.cache_resource cache of load_assets.           *)
(* One execution is modelled as the steps                                  *)
(*   StartRun -> ensure_model -> load_assets -> render_form -> predict     *)
(* with st.stop() and uncaught exceptions ending the execution early.      *)
(***************************************************************************)
EXTENDS Integers, Sequences, FiniteSets, TLC

VARIABLES
    remote,        \* the artifact behind GDRIVE_FILE_ID: [size, obj]
    modelFile,     \* MODEL_PATH on disk
    featuresFile,  \* FEATURES_PATH on disk
    choicesFile,   \* CHOICES_PATH on disk
    cache,         \* st.cache_resource entry of load_assets
    pc,            \* position of the current script execution
    status,        \* "done" | "running" | "stopped" (st.stop) | "crashed"
    submitted,     \* st.form_submit_button("Predict") in this execution
    inputs,        \* the dict `inputs` built by the form
    row,           \* the dict `row` (insertion ordered), as <<name, value>> pairs
    shown,         \* what this execution has put on the page
    result,        \* outcome of the try block of the submitted branch
    exc,           \* the exception raised inside the try block ("" if none)
    downloads,     \* gdown.download calls made by this execution
    deserialized   \* every file that was handed to joblib.load

vars == <<remote, modelFile, featuresFile, choicesFile, cache, pc, status,
          submitted, inputs, row, shown, result, exc, downloads, deserialized>>

----------------------------------------------------------------------------
(* Bounds of the model.                                                    *)

\* Largest number of form fields the user changes away from their defaults.
MaxEdits == 1
\* Largest number of sub-estimators in an estimators_ collection (SpecShim).
MaxEstimators == 2

(* Program constants.                                                      *)
MinModelSize == 10000000

----------------------------------------------------------------------------
(* Python values.  Every value carries its type, so values of different    *)
(* Python types are never confused.  Floats are whole numbers here.        *)

None == [t |-> "none"]
PyStr(s) == [t |-> "str", s |-> s]
PyInt(n) == [t |-> "int", n |-> n]
PyFloat(n) == [t |-> "float", n |-> n]

IsNumber(v) == v.t \in {"int", "float"}

\* Python truthiness of a scalar: None, 0, 0.0 and "" are falsy.
scalar_truthy(v) ==
    CASE v.t = "none" -> FALSE
      [] v.t = "str" -> v.s # ""
      [] OTHER -> v.n # 0

(* JSON documents as json.load returns them.  A string is its sequence of  *)
(* characters and an object its sequence of <<key, value>> members,        *)
(* because iterating them yields the characters and the keys in order.     *)
JNull == [t |-> "null"]
JNum(n) == [t |-> "num", n |-> n]
JStr(chars) == [t |-> "str", chars |-> chars]
JList(items) == [t |-> "list", items |-> items]
JObj(pairs) == [t |-> "obj", pairs |-> pairs]

\* `not v` for a parsed JSON document is ~truthy(v).
truthy(v) ==
    CASE v.t = "null" -> FALSE
      [] v.t = "num" -> v.n # 0
      [] v.t = "str" -> Len(v.chars) > 0
      [] v.t = "list" -> Len(v.items) > 0
      [] v.t = "obj" -> Len(v.pairs) > 0

\* `for c in v`: the elements, or a TypeError for what cannot be iterated.
iterate(v) ==
    CASE v.t = "list" -> [ok |-> TRUE, seq |-> v.items]
      [] v.t = "str" -> [ok |-> TRUE, seq |-> v.chars]
      [] v.t = "obj" -> [ok |-> TRUE, seq |-> [i \in 1..Len(v.pairs) |-> v.pairs[i][1]]]
      [] OTHER -> [ok |-> FALSE, seq |-> <<>>]

\* Whether v has a .get method: only a dict has one.
has_get(v) == v.t = "obj"

\* v.get(key, default) on a dict.
dict_get(v, key, default) ==
    LET hits == {i \in 1..Len(v.pairs) : v.pairs[i][1] = key}
    IN IF hits = {} THEN default
       ELSE v.pairs[CHOOSE i \in hits : \A j \in hits : j <= i][2]

----------------------------------------------------------------------------
(* Files holding JSON.  A file is described by what json.load makes of it  *)
(* under each of the two encodings the loader tries.                       *)

ParseFail == [ok |-> FALSE, why |-> "UnicodeDecodeError or JSONDecodeError"]
Parsed(v) == [ok |-> TRUE, val |-> v]
FileAbsent == [exists |-> FALSE]
File(u, l) == [exists |-> TRUE, utf8 |-> u, latin1 |-> l]
\* Pure ASCII JSON: both encodings read the same text.
AsciiFile(v) == File(Parsed(v), Parsed(v))
\* JSON written in latin-1 with bytes that are not valid UTF-8.
Latin1File(v) == File(ParseFail, Parsed(v))
\* Not JSON: latin-1 decodes every byte sequence, but json.load fails.
GarbageFile == File(ParseFail, ParseFail)

Encodings == <<"utf-8", "latin-1">>

open_and_load(f, enc) == IF enc = "utf-8" THEN f.utf8 ELSE f.latin1

RECURSIVE try_encodings(_, _, _)
try_encodings(f, i, default) ==
    IF i > Len(Encodings) THEN default
    ELSE IF open_and_load(f, Encodings[i]).ok
         THEN open_and_load(f, Encodings[i]).val
         ELSE try_encodings(f, i + 1, default)

read_json_resilient(f, default) ==
    IF ~f.exists THEN default ELSE try_encodings(f, 1, default)

EmptyChoices == JObj(<< <<"Town", JList(<<>>)>>, <<"Type", JList(<<>>)>> >>)

----------------------------------------------------------------------------
(* The deserialized model, as far as patch_forest_monotonic looks at it.   *)
(* A sub-estimator is a DecisionTreeRegressor or not, and its              *)
(* monotonic_cst is "absent", "None" or "set" (a constraint array).        *)
(* A collection (estimators_) is absent, not iterable (the attribute      *)
(* holds None), or a sequence.                                             *)

SubEstimators ==
    { [tree |-> TRUE, cst |-> "absent"], [tree |-> TRUE, cst |-> "None"],
      [tree |-> TRUE, cst |-> "set"], [tree |-> FALSE, cst |-> "absent"] }

NoColl == [k |-> "absent"]
BadColl == [k |-> "noniter", value |-> "None"]
Coll(ests) == [k |-> "seq", ests |-> ests]

NoSteps == [k |-> "absent"]
EmptySteps == [k |-> "empty"]
Steps(last) == [k |-> "pipe", last |-> last]

Model(own, steps) == [own |-> own, steps |-> steps]

\* One pass of `for est in X.estimators_: if isinstance(...) and not hasattr(...)`.
patch_loop(c) ==
    IF c.k = "absent" THEN [raised |-> FALSE, coll |-> c]
    ELSE IF c.k = "noniter" THEN [raised |-> TRUE, coll |-> c]
    ELSE [raised |-> FALSE,
          coll |-> Coll([i \in 1..Len(c.ests) |->
                          IF c.ests[i].tree /\ c.ests[i].cst = "absent"
                          THEN [c.ests[i] EXCEPT !.cst = "None"]
                          ELSE c.ests[i]])]

\* A mutant: the pipeline branch is missing.
patch_forest_monotonic_own_only(model) ==
    [model EXCEPT !.own = patch_loop(model.own).coll]

\* patch_forest_monotonic never raises: the whole body is in try/except.
patch_forest_monotonic(model) ==
    LET first == patch_loop(model.own)
        m1 == [model EXCEPT !.own = first.coll]
    IN IF first.raised THEN m1
       ELSE IF model.steps.k = "absent" THEN m1
       ELSE IF model.steps.k = "empty" THEN m1      \* steps[-1]: IndexError
       ELSE [m1 EXCEPT !.steps = Steps(patch_loop(model.steps.last).coll)]

\* A tree of a collection the estimator predicts with lacks monotonic_cst.
lacks_attr(c) ==
    c.k = "seq" /\ \E i \in 1..Len(c.ests) : c.ests[i].tree /\ c.ests[i].cst = "absent"

missing_monotonic_cst(model) ==
    \/ lacks_attr(model.own)
    \/ model.steps.k = "pipe" /\ lacks_attr(model.steps.last)

----------------------------------------------------------------------------
(* The form.  st.number_input returns a number of the type of its `value`  *)
(* that respects min_value and max_value where they are given.             *)

cat_cols == <<"Town", "Type">>

\* The `defaults` dict, with int(...) and float(...) applied as the widgets do.
defaults ==
    [TotalArea |-> PyInt(80), TotalRooms |-> PyInt(3), NumberOfBathrooms |-> PyInt(1),
     Parking |-> PyInt(0), Elevator |-> PyInt(0), travel_min_final |-> PyFloat(30),
     drive_min_final |-> PyFloat(20), drive_km_final |-> PyFloat(10),
     no_transit_route |-> PyInt(0)]

NumberFields == DOMAIN defaults

\* The min_value / max_value arguments of each st.number_input call.
has_min_value(f) ==
    f \in {"TotalArea", "TotalRooms", "Parking", "NumberOfBathrooms", "Elevator",
           "no_transit_route"}
has_max_value(f) == f \in {"Elevator", "no_transit_route"}
min_value(f) == 0
max_value(f) == 1

\* What a user may type into a number field.
Typed == {-1, 0, 1, 2}

\* The values st.number_input can return for field f.
number_input(f) ==
    { [defaults[f] EXCEPT !.n = n] :
        n \in { m \in Typed \cup {defaults[f].n} :
                  /\ has_min_value(f) => m >= min_value(f)
                  /\ has_max_value(f) => m <= max_value(f) } }

\* str.strip() on the texts that occur in the model.
strip(s) ==
    CASE s = " " -> ""
      [] s = " Porto " -> "Porto"
      [] s = " House " -> "House"
      [] OTHER -> s

\* What a user may type into a text field.
TypedText == {"", " ", " Porto ", " House "}

\* choices.get(key, []) or []
options(choices, key) ==
    LET v == dict_get(choices, key, JList(<<>>))
    IN IF truthy(v) THEN v.items ELSE <<>>

\* The widgets of the form, before anything is entered.
RawFields ==
    {"town_sel", "town_manual", "type_sel", "type_manual"} \cup NumberFields

raw_defaults ==
    [f \in RawFields |->
        CASE f \in {"town_sel", "type_sel"} -> None       \* index=None
          [] f \in {"town_manual", "type_manual"} -> PyStr("")
          [] OTHER -> defaults[f]]

\* The values widget f can hold, given the option lists.
widget_values(f, town_opts, type_opts) ==
    CASE f = "town_sel" ->
            {None} \cup {PyStr(town_opts[i]) : i \in 1..Len(town_opts)}
      [] f = "type_sel" ->
            {None} \cup {PyStr(type_opts[i]) : i \in 1..Len(type_opts)}
      [] f = "town_manual" -> {PyStr(s) : s \in TypedText}
      [] f = "type_manual" ->
            \* type_manual = "" if type_opts else st.text_input(...)
            IF Len(type_opts) > 0 THEN {PyStr("")} ELSE {PyStr(s) : s \in TypedText}
      [] OTHER -> number_input(f)

\* The form states in which at most k widgets differ from their defaults.
RECURSIVE form_states(_, _, _)
form_states(k, town_opts, type_opts) ==
    IF k = 0 THEN {raw_defaults}
    ELSE LET prev == form_states(k - 1, town_opts, type_opts)
         IN prev \cup UNION { { [r EXCEPT ![f] = v] :
                                   v \in widget_values(f, town_opts, type_opts) }
                                 : r \in prev, f \in RawFields }

\* a or b, on strings.
str_or(a, b) == IF a # "" THEN a ELSE b

\* `town_sel or ""`: a selectbox with index=None returns None until chosen.
sel_or_empty(v) == IF v.t = "none" THEN "" ELSE v.s

InputNames == {"Town", "Type"} \cup NumberFields

\* The dict `inputs` the form builds from its widgets.
collect(raw) ==
    [name \in InputNames |->
        CASE name = "Town" ->
               PyStr(strip(str_or(strip(raw["town_manual"].s), sel_or_empty(raw["town_sel"]))))
          [] name = "Type" ->
               PyStr(strip(str_or(strip(raw["type_manual"].s), sel_or_empty(raw["type_sel"]))))
          [] OTHER -> raw[name]]

\* d.get(k, default) on the dict `inputs`.
inputs_get(d, k, default) == IF k \in DOMAIN d THEN d[k] ELSE default

----------------------------------------------------------------------------
(* Row assembly and prediction.                                            *)

\* {k: inputs.get(k, None) for k in keys[1..n]}: a dict keeps one entry per
\* key, at the place of the key's first occurrence.
RECURSIVE dict_comprehension(_, _, _)
dict_comprehension(keys, n, d) ==
    IF n = 0 THEN <<>>
    ELSE LET sofar == dict_comprehension(keys, n - 1, d)
             k == keys[n]
             v == inputs_get(d, k, None)
         IN IF \E i \in 1..Len(sofar) : sofar[i][1] = k
            THEN [i \in 1..Len(sofar) |-> IF sofar[i][1] = k THEN <<k, v>> ELSE sofar[i]]
            ELSE Append(sofar, <<k, v>>)

\* row = {k: inputs.get(k, None) for k in features}
assemble(features, d) ==
    dict_comprehension(iterate(features).seq, Len(iterate(features).seq), d)

\* float(x): fails for None.
py_float(v) ==
    IF IsNumber(v) THEN [ok |-> TRUE, val |-> PyFloat(v.n)]
    ELSE [ok |-> FALSE, val |-> None]

\* a or 0
or_zero(v) == IF scalar_truthy(v) THEN v ELSE PyInt(0)

\* A mutant: the area is taken from TotalRooms.
total_price_rooms(ppm2, d) ==
    PyFloat(ppm2.n * py_float(or_zero(inputs_get(d, "TotalRooms", PyInt(0)))).val.n)

\* total = ppm2 * float(inputs.get("TotalArea", 0) or 0)
total_price(ppm2, d) ==
    PyFloat(ppm2.n * py_float(or_zero(inputs_get(d, "TotalArea", PyInt(0)))).val.n)

\* Prices per square metre an estimator may return.
Prices == {0, 2500}

Raises(msg) == [k |-> "raises", msg |-> msg]
Returns(first) == [k |-> "returns", first |-> first]

(* What model.predict(X)[0] can do.  The estimator is opaque: it may       *)
(* return a price, return something float() rejects, or raise.  With a     *)
(* tree that lacks monotonic_cst it raises the AttributeError the shim is  *)
(* there to prevent.                                                       *)
predict_outcomes(model, X) ==
    IF missing_monotonic_cst(model)
    THEN {Raises("AttributeError: monotonic_cst")}
    ELSE {Returns(PyFloat(p)) : p \in Prices}
         \cup {Returns(None), Raises("ValueError: feature mismatch")}

\* A mutant: the try has no except, so the exception ends the script.
try_block_uncaught(out, d) ==
    IF out.k = "raises"
    THEN [status |-> "crashed", exc |-> out.msg, result |-> [k |-> "none"],
          shown |-> {"exception"}]
    ELSE IF ~py_float(out.first).ok
    THEN [status |-> "crashed", exc |-> "TypeError: float()", result |-> [k |-> "none"],
          shown |-> {"exception"}]
    ELSE [status |-> "done", exc |-> "",
          result |-> [k |-> "estimate", ppm2 |-> py_float(out.first).val,
                      total |-> total_price(py_float(out.first).val, d)],
          shown |-> {"success", "input_row"}]

\* try: ppm2 = float(...); total = ...; st.success(...) except Exception as e: st.error(...)
try_block(out, d) ==
    IF out.k = "raises"
    THEN [status |-> "done", exc |-> out.msg,
          result |-> [k |-> "failed", msg |-> out.msg],
          shown |-> {"error_prediction"}]
    ELSE IF ~py_float(out.first).ok
    THEN [status |-> "done", exc |-> "TypeError: float()",
          result |-> [k |-> "failed", msg |-> "TypeError: float()"],
          shown |-> {"error_prediction"}]
    ELSE [status |-> "done", exc |-> "",
          result |-> [k |-> "estimate", ppm2 |-> py_float(out.first).val,
                      total |-> total_price(py_float(out.first).val, d)],
          shown |-> {"success", "input_row"}]

----------------------------------------------------------------------------
(* The model file and its download.                                        *)

Corrupt == [corrupt |-> TRUE]          \* bytes joblib.load cannot unpickle
NoModelFile == [exists |-> FALSE]
ModelFile(size, obj, downloaded) ==
    [exists |-> TRUE, size |-> size, obj |-> obj, downloaded |-> downloaded]

\* Sizes of what a broken download leaves: an error page, a truncated stream.
partial_sizes(r) == {n \in {0, MinModelSize - 1, MinModelSize} : n < r.size}

(* What gdown.download can do.  It raises, or returns without having       *)
(* written anything, or writes less than the artifact, or writes it all.  *)
(* It moves the bytes to the output path only when it does not raise.      *)
download_outcomes(r) ==
    {[raised |-> TRUE, file |-> NoModelFile], [raised |-> FALSE, file |-> NoModelFile]}
    \cup {[raised |-> FALSE, file |-> ModelFile(n, Corrupt, TRUE)] : n \in partial_sizes(r)}
    \cup {[raised |-> FALSE, file |-> ModelFile(r.size, r.obj, TRUE)]}

\* A mutant: the early return is missing, every call downloads.
needs_download_always(file) == TRUE

\* if MODEL_PATH.exists(): return
needs_download(file) == ~file.exists

\* not MODEL_PATH.exists() or st_size < 10_000_000, or gdown raised
download_rejected(out) ==
    out.raised \/ ~out.file.exists \/ out.file.size < MinModelSize

----------------------------------------------------------------------------
(* The steps of one execution of the script.                               *)

NoResult == [k |-> "none"]
NotLoaded == [loaded |-> FALSE]

\* A rerun of the script: by a page load, or by the Predict button of a
\* form that the previous execution rendered.
StartRun(sub) ==
    /\ pc = "idle"
    /\ sub => ("form" \in shown /\ status = "done")
    /\ pc' = "ensure_model"
    /\ status' = "running"
    /\ submitted' = sub
    /\ inputs' = <<>>
    /\ row' = <<>>
    /\ shown' = {}
    /\ result' = NoResult
    /\ exc' = ""
    /\ downloads' = 0
    /\ UNCHANGED <<remote, modelFile, featuresFile, choicesFile, cache, deserialized>>

PageLoad == StartRun(FALSE)

PressPredict == StartRun(TRUE)

ensure_model ==
    /\ pc = "ensure_model"
    /\ IF ~needs_download(modelFile)
       THEN /\ pc' = "load_assets"
            /\ UNCHANGED <<modelFile, shown, status, downloads>>
       ELSE \E out \in download_outcomes(remote) :
              /\ downloads' = downloads + 1
              /\ modelFile' = out.file
              /\ IF download_rejected(out)
                 THEN /\ shown' = shown \cup {"warning_downloading", "error_download"}
                      /\ status' = "stopped"
                      /\ pc' = "idle"
                 ELSE /\ shown' = shown \cup {"warning_downloading"}
                      /\ status' = "running"
                      /\ pc' = "load_assets"
    /\ UNCHANGED <<remote, featuresFile, choicesFile, cache, submitted, inputs, row,
                   result, exc, deserialized>>

\* model, features, choices = load_assets(), behind st.cache_resource
load_assets ==
    /\ pc = "load_assets"
    /\ IF cache.loaded
       THEN /\ pc' = "render_form"
            /\ UNCHANGED <<cache, shown, status, deserialized>>
       ELSE LET features == read_json_resilient(featuresFile, JNull)
                choices == read_json_resilient(choicesFile, EmptyChoices)
            IN IF ~truthy(features)
               THEN /\ shown' = shown \cup {"error_schema"}
                    /\ status' = "stopped"
                    /\ pc' = "idle"
                    /\ UNCHANGED <<cache, deserialized>>
               ELSE /\ deserialized' = deserialized \cup
                          {[size |-> modelFile.size, downloaded |-> modelFile.downloaded]}
                    /\ IF modelFile.obj = Corrupt
                       THEN /\ shown' = shown \cup {"exception"}
                            /\ status' = "crashed"
                            /\ pc' = "idle"
                            /\ UNCHANGED cache
                       ELSE /\ cache' = [loaded |-> TRUE,
                                         model |-> patch_forest_monotonic(modelFile.obj),
                                         features |-> features,
                                         choices |-> choices]
                            /\ pc' = "render_form"
                            /\ UNCHANGED <<shown, status>>
    /\ UNCHANGED <<remote, modelFile, featuresFile, choicesFile, submitted, inputs, row,
                   result, exc, downloads>>

\* From cat_cols to st.caption: num_cols, the title, the form.
render_form ==
    /\ pc = "render_form"
    /\ IF ~iterate(cache.features).ok
       THEN \* num_cols = [c for c in features ...]: TypeError
            /\ shown' = shown \cup {"exception"}
            /\ status' = "crashed"
            /\ pc' = "idle"
            /\ UNCHANGED inputs
       ELSE IF ~has_get(cache.choices)
       THEN \* choices.get("Town", []): AttributeError
            /\ shown' = shown \cup {"title", "exception"}
            /\ status' = "crashed"
            /\ pc' = "idle"
            /\ UNCHANGED inputs
       ELSE LET town_opts == options(cache.choices, "Town")
                type_opts == options(cache.choices, "Type")
            IN \E raw \in (IF submitted
                           THEN form_states(MaxEdits, town_opts, type_opts)
                           ELSE {raw_defaults}) :
                 /\ inputs' = collect(raw)
                 /\ shown' = shown \cup {"title", "form", "caption"}
                 /\ IF submitted
                    THEN pc' = "predict" /\ UNCHANGED status
                    ELSE pc' = "idle" /\ status' = "done"
    /\ UNCHANGED <<remote, modelFile, featuresFile, choicesFile, cache, submitted, row,
                   result, exc, downloads, deserialized>>

\* if submitted: ...
predict ==
    /\ pc = "predict"
    /\ LET X == assemble(cache.features, inputs)
       IN /\ row' = X
          /\ \E out \in predict_outcomes(cache.model, X) :
               LET r == try_block(out, inputs)
               IN /\ result' = r.result
                  /\ exc' = r.exc
                  /\ status' = r.status
                  /\ shown' = shown \cup r.shown
    /\ pc' = "idle"
    /\ UNCHANGED <<remote, modelFile, featuresFile, choicesFile, cache, submitted, inputs,
                   downloads, deserialized>>

NextPageLoad == PageLoad \/ ensure_model \/ load_assets \/ render_form

Next == NextPageLoad \/ PressPredict \/ predict

----------------------------------------------------------------------------
(* Deployments: what is on disk and behind the Drive id at the start.      *)

\* The feature list of the end-to-end scenario.
CanonicalSchema ==
    <<"Town", "Type", "TotalArea", "TotalRooms", "NumberOfBathrooms", "Parking",
      "Elevator", "travel_min_final", "drive_min_final", "drive_km_final",
      "no_transit_route">>

FeatureFiles ==
    { FileAbsent, GarbageFile,
      AsciiFile(JNull), AsciiFile(JList(<<>>)), AsciiFile(JObj(<<>>)),
      AsciiFile(JStr(<<>>)), AsciiFile(JNum(0)),
      AsciiFile(JList(CanonicalSchema)), Latin1File(JList(CanonicalSchema)),
      AsciiFile(JList(<<"lat", "Town", "TotalArea">>)),
      AsciiFile(JList(<<"TotalArea", "Town", "TotalArea">>)),
      AsciiFile(JObj(<< <<"TotalArea", JNum(1)>> >>)),
      AsciiFile(JStr(<<"a", "b">>)), AsciiFile(JNum(5)) }

Catalog == JObj(<< <<"Town", JList(<<"Lisbon", "Porto">>)>>,
                   <<"Type", JList(<<"Apartment">>)>> >>)

(* Catalog files.  The objects among them map "Town" and "Type" to lists   *)
(* or null, or lack the key: what st.selectbox does with other options is  *)
(* not decided by this repository.                                         *)
ChoiceFiles ==
    { FileAbsent, GarbageFile,
      AsciiFile(Catalog), Latin1File(Catalog),
      AsciiFile(JObj(<<>>)),
      AsciiFile(JObj(<< <<"Town", JNull>>, <<"Type", JList(<<"Apartment">>)>> >>)),
      AsciiFile(JNull), AsciiFile(JList(<<>>)), AsciiFile(JList(<<"Lisbon">>)),
      AsciiFile(JStr(<<"x">>)), AsciiFile(JNum(5)) }

Tree(cst) == [tree |-> TRUE, cst |-> cst]

\* A forest saved by the older library, a pipeline ending in one, and an
\* object whose estimators_ cannot be iterated in front of such a pipeline.
RemoteModels ==
    { Model(Coll(<<Tree("absent"), Tree("absent")>>), NoSteps),
      Model(BadColl, Steps(Coll(<<Tree("absent")>>))) }

RemoteFiles ==
    { [size |-> n, obj |-> m] :
        n \in {MinModelSize, MinModelSize + 1}, m \in RemoteModels }

InitWith(FF, CF, RF) ==
    /\ remote \in RF
    /\ modelFile \in {NoModelFile, ModelFile(remote.size, remote.obj, FALSE)}
    /\ featuresFile \in FF
    /\ choicesFile \in CF
    /\ cache = NotLoaded
    /\ pc = "idle"
    /\ status = "done"
    /\ submitted = FALSE
    /\ inputs = <<>>
    /\ row = <<>>
    /\ shown = {}
    /\ result = NoResult
    /\ exc = ""
    /\ downloads = 0
    /\ deserialized = {}

Init == InitWith(FeatureFiles, ChoiceFiles, RemoteFiles)

Spec == Init /\ [][Next]_vars

(* The shim over every model shape: page loads of deployments that differ  *)
(* in the model only.                                                      *)

RECURSIVE SeqsUpTo(_, _)
SeqsUpTo(S, n) ==
    IF n = 0 THEN {<<>>}
    ELSE LET shorter == SeqsUpTo(S, n - 1)
         IN shorter \cup {Append(q, x) : q \in shorter, x \in S}

Colls == {NoColl, BadColl} \cup {Coll(q) : q \in SeqsUpTo(SubEstimators, MaxEstimators)}

AllModels ==
    { Model(own, steps) :
        own \in Colls, steps \in {NoSteps, EmptySteps} \cup {Steps(c) : c \in Colls} }

InitShim ==
    InitWith({AsciiFile(JList(CanonicalSchema))}, {AsciiFile(Catalog)},
             {[size |-> MinModelSize, obj |-> m] : m \in AllModels})

SpecShim == InitShim /\ [][NextPageLoad]_vars

----------------------------------------------------------------------------
(* Properties.                                                             *)

\* The submitted branch has built `row` in this execution.
Assembled == Len(row) > 0

\* The value of column `name` of the row (None when there is no such column).
row_get(r, name) ==
    LET hits == {i \in 1..Len(r) : r[i][1] = name}
    IN IF hits = {} THEN None ELSE r[CHOOSE i \in hits : TRUE][2]

\* The schema file yields a non-empty list.
GoodSchema ==
    LET f == read_json_resilient(featuresFile, JNull)
    IN f.t = "list" /\ Len(f.items) > 0

(* C1, as stated: for a schema that is a list of N names, repeated names   *)
(* included, the row has exactly N columns, column i being schema name i   *)
(* with the record's value for it, or None.                                *)
C1_RowHasOneColumnPerSchemaEntry ==
    (Assembled /\ cache.features.t = "list") =>
        LET schema == cache.features.items
        IN /\ Len(row) = Len(schema)
           /\ \A i \in 1..Len(schema) :
                row[i] = <<schema[i], inputs_get(inputs, schema[i], None)>>

(* C2, as stated: when no_transit_route is 1 the row's travel_min_final is *)
(* the car time drive_min_final, whatever the transit field holds.         *)
C2_TransitTimeDerivedFromCarTime ==
    (/\ Assembled
     /\ \E i \in 1..Len(row) : row[i][1] = "travel_min_final"
     /\ inputs["no_transit_route"].n = 1)
        => row_get(row, "travel_min_final").n = inputs["drive_min_final"].n

(* C3, as stated: no downloaded file below the size threshold is ever      *)
(* handed to joblib.load, in the execution that downloaded it or later.    *)
C3_UndersizedDownloadNeverDeserialized ==
    \A d \in deserialized : d.downloaded => d.size >= MinModelSize

(* C4, as stated: unless the schema file yields a non-empty list, no       *)
(* execution gets past load_assets: nothing is cached, the form is not     *)
(* rendered and nothing is predicted.                                      *)
C4_SchemaMustBeNonEmptyList ==
    ~GoodSchema =>
        /\ ~cache.loaded
        /\ pc \notin {"render_form", "predict"}
        /\ "form" \notin shown
        /\ result = NoResult

(* C5: an exception raised inside the try block is shown as 'Prediction    *)
(* failed' with its message, no estimate is shown, the execution ends      *)
(* normally, the cache is untouched and Predict can be pressed again.      *)
C5_PredictionFailureIsCaught ==
    [][(pc = "predict" /\ exc' # "") =>
          /\ result' = [k |-> "failed", msg |-> exc']
          /\ "error_prediction" \in shown'
          /\ "success" \notin shown'
          /\ "exception" \notin shown'
          /\ status' = "done"
          /\ cache' = cache
          /\ pc' = "idle"
          /\ "form" \in shown']_vars

C5_Witness ==
    /\ result = [k |-> "failed", msg |-> "AttributeError: monotonic_cst"]
    /\ submitted
    /\ status = "done"
    /\ cache.loaded

\* The catalog file is absent, is not JSON, or is JSON that is not an object.
CatalogUnusable ==
    \/ ~choicesFile.exists
    \/ choicesFile = GarbageFile
    \/ read_json_resilient(choicesFile, EmptyChoices).t # "obj"

(* C6, as stated: with an unusable catalog (and a good schema) the         *)
(* execution still renders the form, with empty option lists and without   *)
(* an error.                                                               *)
C6_UnusableCatalogNeverFails ==
    (CatalogUnusable /\ GoodSchema /\ cache.loaded /\ pc \in {"idle", "predict"}) =>
        /\ status # "crashed"
        /\ "exception" \notin shown
        /\ "form" \in shown
        /\ has_get(cache.choices)
        /\ options(cache.choices, "Town") = <<>>
        /\ options(cache.choices, "Type") = <<>>

(* C7: the total shown is the estimator's price per square metre times the *)
(* TotalArea of the record; the expression gives 0 for a record whose area *)
(* is 0, None or missing.                                                  *)
C7_TotalIsPriceTimesArea ==
    result.k = "estimate" =>
        /\ result.ppm2.n \in Prices
        /\ result.total = PyFloat(result.ppm2.n * inputs["TotalArea"].n)
        /\ inputs["TotalArea"].n = 0 => result.total.n = 0
        /\ total_price(result.ppm2, [inputs EXCEPT !["TotalArea"] = None]).n = 0
        /\ total_price(result.ppm2,
                       [name \in DOMAIN inputs \ {"TotalArea"} |-> inputs[name]]).n = 0

C7_Witness ==
    /\ result.k = "estimate"
    /\ result.ppm2 = PyFloat(2500)
    /\ inputs["TotalArea"] = PyInt(80)
    /\ result.total = PyFloat(200000)
    /\ "success" \in shown

\* Sub-estimator i of collection c of the file is, in c2 of the cache, the
\* same sub-estimator with at most monotonic_cst added.
same_but_attr(c, c2) ==
    /\ c2.k = c.k
    /\ c.k = "seq" =>
         /\ Len(c2.ests) = Len(c.ests)
         /\ \A i \in 1..Len(c.ests) :
              /\ c2.ests[i].tree = c.ests[i].tree
              /\ c.ests[i].cst # "absent" => c2.ests[i].cst = c.ests[i].cst
              /\ ~c.ests[i].tree => c2.ests[i] = c.ests[i]

\* Every tree of c that lacked monotonic_cst has it as None in c2.
all_patched(c, c2) ==
    c.k = "seq" =>
        \A i \in 1..Len(c.ests) :
            (c.ests[i].tree /\ c.ests[i].cst = "absent") => c2.ests[i].cst = "None"

same_steps_but_attr(st, st2) ==
    /\ st2.k = st.k
    /\ st.k = "pipe" => same_but_attr(st.last, st2.last)

(* C8, as stated: after load_assets every tree that lacked monotonic_cst,  *)
(* in the model's own collection or in the last pipeline step's, has it    *)
(* as None, the others are as they were, and no prediction can raise the   *)
(* AttributeError.                                                         *)
C8_EveryTreePatched ==
    cache.loaded =>
        /\ same_but_attr(modelFile.obj.own, cache.model.own)
        /\ same_steps_but_attr(modelFile.obj.steps, cache.model.steps)
        /\ all_patched(modelFile.obj.own, cache.model.own)
        /\ modelFile.obj.steps.k = "pipe" =>
             all_patched(modelFile.obj.steps.last, cache.model.steps.last)
        /\ ~missing_monotonic_cst(cache.model)

(* C8, amended: the shim never raises and returns the same model with at   *)
(* most monotonic_cst added; the trees of the model's own collection are   *)
(* always patched; those of the last pipeline step are patched unless the  *)
(* model's own estimators_ cannot be iterated, in which case the error is  *)
(* swallowed and they stay as they were.                                   *)
C8_TreesPatchedUnlessTraversalFails ==
    cache.loaded =>
        /\ same_but_attr(modelFile.obj.own, cache.model.own)
        /\ same_steps_but_attr(modelFile.obj.steps, cache.model.steps)
        /\ all_patched(modelFile.obj.own, cache.model.own)
        /\ IF modelFile.obj.own.k = "noniter"
           THEN cache.model = modelFile.obj
           ELSE /\ modelFile.obj.steps.k = "pipe" =>
                     all_patched(modelFile.obj.steps.last, cache.model.steps.last)
                /\ ~missing_monotonic_cst(cache.model)

C8_Witness ==
    /\ cache.loaded
    /\ lacks_attr(modelFile.obj.own)
    /\ modelFile.obj.steps.k = "pipe"
    /\ lacks_attr(modelFile.obj.steps.last)
    /\ \E i \in 1..Len(modelFile.obj.steps.last.ests) :
         modelFile.obj.steps.last.ests[i].cst = "set"
    /\ ~missing_monotonic_cst(cache.model)

(* C9: when the model file exists at the start of ensure_model, the call   *)
(* downloads nothing, shows nothing, does not stop and leaves the file as  *)
(* it is; when the file is absent it downloads exactly once.               *)
C9_FetcherIsIdempotent ==
    [][pc = "ensure_model" =>
          IF modelFile.exists
          THEN /\ downloads' = 0
               /\ modelFile' = modelFile
               /\ shown' = {}
               /\ status' = "running"
               /\ pc' = "load_assets"
          ELSE downloads' = 1]_vars

C9_Witness ==
    /\ pc = "load_assets"
    /\ downloads = 0
    /\ modelFile.exists
    /\ modelFile.downloaded
    /\ shown = {}

(* C10, as stated: every record that reaches row assembly has non-negative *)
(* integer counts, flags in {0,1} and non-negative times and distance.     *)
C10_InputsWithinDeclaredBounds ==
    pc = "predict" =>
        /\ \A f \in {"TotalArea", "TotalRooms", "NumberOfBathrooms", "Parking"} :
             inputs[f].t = "int" /\ inputs[f].n >= 0
        /\ \A f \in {"Elevator", "no_transit_route"} : inputs[f].n \in {0, 1}
        /\ \A f \in {"drive_min_final", "drive_km_final", "travel_min_final"} :
             inputs[f].n >= 0

====
